---- MODULE Spec2Model ----
(***************************************************************************)
(* Model of the artifact / release download orchestration of the          *)
(* celestial-calendar automation scripts:                                  *)
(*   automation/github.py        GitHub.async_download_artifacts,          *)
(*                               GitHub.async_download_release             *)
(*   toolbox/artifact_downloader.py, toolbox/release_downloader.py,        *)
(*   artifact_downloader.py      the command-line drivers                  *)
(*                                                                         *)
(* The asyncio event loop runs one task at a time, so everything a task    *)
(* does between two suspension points is one action.  The only suspension  *)
(* point of a worker is `await asyncio.to_thread(...)`; the download then  *)
(* runs in a thread, whose steps interleave freely with everything else.   *)
(***************************************************************************)
EXTENDS Integers, Sequences, FiniteSets, TLC

\* ---------------------------------------------------------------- bounds
MaxItems == 3     \* entries of one remote catalog response
MaxWorkers == 2   \* largest accepted pool size that is explored
MaxWorkflows == 2 \* workflows of the remote repository (drivers)
MaxRuns == 1      \* runs of the remote repository (drivers)
MaxReleases == 2  \* releases of the remote repository (drivers)
MaxListed == 3    \* runs / releases listed when the latest one is selected
MaxTime == 3      \* distinct created_at / published_at timestamps
MaxCalls == 2
MaxRetcode == 2     \* calls of the download function on one directory

\* ------------------------------------------------------ program constants
PARALLEL_MIN == 1
PARALLEL_MAX == 20
\* the upper limit of --parallel in artifact_downloader.py
LEGACY_PARALLEL_MAX == 16

TARGET_WORKFLOW == "Build and Test on Multiple Platforms"
OTHER_WORKFLOW == "Lint"

\* A file or item name is the sequence of its dot-separated components:
\* "src.tar.gz" is <<"src", "tar", "gz">>.
SRC_ZIP == <<"src", "zip">>
SRC_TAR_GZ == <<"src", "tar", "gz">>

\* Names the remote side gives to artifacts, and to release assets (two
\* ordinary assets, and one named like the source archive the batch adds),
\* in the order a release lists them.
ArtifactNames == {<<"a">>, <<"b">>, <<"c">>}
AssetOrder == <<<<"a">>, <<"b">>, SRC_ZIP>>
AssetNames == {AssetOrder[i] : i \in 1..Len(AssetOrder)}
Names == ArtifactNames \cup AssetNames

\* Values of the status of a run: the one the drivers ask for, and another
STATUSES == {"completed", "in_progress"}

\* Python's None as the value of --id / --tag
NONE == -1
\* exitCode while the process runs
RUNNING == -1
TAG_BASE == 100

\* The URL of the i-th entry of a catalog response is i; the source archive
\* of a release has URL 0 (both src entries are given the same .tar.gz URL).
SRC_URL == 0

\* Values of --parallel / `parallel` that are tried: the invalid ones on
\* both sides of the accepted range and the accepted ones up to MaxWorkers.
ParallelValues == {PARALLEL_MIN - 1, PARALLEL_MAX + 1} \cup (PARALLEL_MIN..MaxWorkers)

RECURSIVE SeqsUpTo(_, _)
SeqsUpTo(S, n) ==
  IF n = 0 THEN {<<>>}
  ELSE LET shorter == SeqsUpTo(S, n - 1)
       IN shorter \cup {Append(s, x) : s \in {t \in shorter : Len(t) = n - 1}, x \in S}

Range(s) == {s[i] : i \in 1..Len(s)}

VARIABLES
  prog,        \* the program that runs: "api" is a direct call of
               \* GitHub.download_artifacts / GitHub.download_release
  entry,       \* the download function it uses: "artifacts" | "release" of
               \* automation/github.py, "generic" of automation/download.py
  parallel,    \* the `parallel` argument / --parallel
  argId,       \* --run-id (0: the latest run) / --id (NONE: not given)
  argTag,      \* --tag (NONE: not given)
  unzip,       \* --unzip
  workflows,   \* remote: the workflow list, in response order
  runs,        \* remote: the run list, in response order
  catalog,     \* remote: names of the artifacts of the run, in response order
  releases,    \* remote: the release list, in response order
  target,      \* the run_id / release_id the download function is called with
  workflow,    \* latest_artifact_run: id of the workflow found (0: none yet)
  k,           \* main: position of the unzip loop in downloaded_artifacts
  extracted,   \* main: the archives unpacked so far and where to
  exitCode,    \* exit code of the process (RUNNING while it runs)
  pc,          \* position of the calling coroutine
  err,         \* exception that left the call ("none" while there is none)
  net,         \* HTTP requests issued so far, by kind
  items,       \* the (name, url) tuples put on the queue, in put order
  queue,       \* asyncio.Queue: indices into items still queued
  unfinished,  \* asyncio.Queue._unfinished_tasks
  paths,       \* the `paths` list
  tasks,       \* the worker tasks
  fs,          \* destination directory: file name -> content, and under
               \* DOWNLOAD_DIR whether the directory itself exists
  hist,        \* per queued tuple: times dequeued, successes and failures recorded
  calls,       \* calls of the download function made so far by the caller
  prior,       \* destination directory as it was when the current call began
  flags,       \* project.py: the flags given on the command line
  todo,        \* project.py main: `tasks`, the list create_tasks returned
  results      \* project.py run_tasks: `results`

inputs == <<prog, entry, parallel, argId, argTag, unzip, workflows, runs, catalog, releases>>
\* What no step of a call changes.
runner == <<flags, todo, results>>
world == <<inputs, calls, prior, runner>>
driver == <<workflow, k, extracted, exitCode>>

vars == <<world, driver, target, pc, err, net, items, queue, unfinished, paths, tasks,
          fs, hist>>

batch == <<items, queue, unfinished, paths, tasks, fs, hist>>

\* ------------------------------------------------------------- helpers

NoNet == [workflows |-> 0, runs |-> 0, releases |-> 0, artifacts |-> 0, download |-> 0]

ABSENT == <<"absent">>
\* content of a file that was in the directory before the first call
STALE == <<"stale">>
\* content of a file that two threads wrote at the same time through two
\* handles: some mixture of the chunks of both
MIXED == <<"mixed">>
Partial(url) == <<"partial", url>>
Full(url) == <<"full", url>>

\* GitHub.download_one_artifact: download_dir / f"{name}.zip"
ArtifactFile(name) == Append(name, "zip")
\* GitHub.download_one_release_asset: download_dir / name
AssetFile(name) == name

FileOf(e, name) == IF e = "release" THEN AssetFile(name) ELSE ArtifactFile(name)

AllFiles ==
  {ArtifactFile(n) : n \in Names} \cup {AssetFile(n) : n \in Names \cup {SRC_TAR_GZ}}

\* The destination directory itself, as a path relative to itself, and what
\* fs holds for it once it exists.
DOWNLOAD_DIR == <<>>
DIRECTORY == <<"dir">>

Entries == AllFiles \cup {DOWNLOAD_DIR}

\* The directory does not exist.
NoDirectory == [f \in Entries |-> ABSENT]
\* The directory exists and holds every file with an old content.
StaleDirectory == [f \in Entries |-> IF f = DOWNLOAD_DIR THEN DIRECTORY ELSE STALE]

\* download_dir.mkdir(parents=True, exist_ok=True)
Mkdir(files) == [files EXCEPT ![DOWNLOAD_DIR] = DIRECTORY]

\* dict[name] = url: a repeated key keeps its first position and takes the
\* last value.
DictPut(d, name, url) ==
  IF \E i \in 1..Len(d) : d[i].name = name
  THEN [i \in 1..Len(d) |-> IF d[i].name = name THEN [name |-> name, url |-> url] ELSE d[i]]
  ELSE Append(d, [name |-> name, url |-> url])

RECURSIVE DictOf(_, _)
DictOf(resp, n) ==
  IF n = 0 THEN <<>> ELSE DictPut(DictOf(resp, n - 1), resp[n].name, resp[n].url)

\* The JSON list of artifacts / assets the remote side answers with.
Response(names) == [i \in 1..Len(names) |-> [name |-> names[i], url |-> i]]

\* GitHub.get_artifacts_download_urls: the dict comprehension.
get_artifacts_download_urls(names) == DictOf(Response(names), Len(names))

\* GitHub.async_download_release: the first release with the given id, or
\* 0 for None.
SelectRelease(rels, id) ==
  IF \E i \in 1..Len(rels) : rels[i].id = id
  THEN CHOOSE i \in 1..Len(rels) : rels[i].id = id /\ \A j \in 1..(i - 1) : rels[j].id # id
  ELSE 0

\* GitHub.async_download_release: the tuples put on the queue.
ReleaseItems(rel) ==
  Response(rel.assets)
    \o <<[name |-> SRC_ZIP, url |-> SRC_URL], [name |-> SRC_TAR_GZ, url |-> SRC_URL]>>

NewTask == [pc |-> "new", item |-> 0, result |-> "none"]

\* Variant: one task more than asked for.
CreateOneMore(n) == [w \in 1..(n + 1) |-> NewTask]

\* [asyncio.create_task(coro()) for _ in range(parallel)]
CreateTasks(n) == [w \in 1..n |-> NewTask]

Workers == 1..Len(tasks)

InFlight == {w \in Workers : tasks[w].pc \in {"req", "write"}}

\* ------------------------------------------------ GitHub.async_download_*

\* Variant: only the lower limit is checked.
ValidLowerOnly(p) == ~(p < PARALLEL_MIN)

\* `if parallel < 1 or parallel > 20: raise ValueError(...)`, negated
ValidParallel(p) == ~(p < PARALLEL_MIN \/ p > PARALLEL_MAX)

\* Variant: the loop never sees the queue empty (`while True`).
NeverEmpty(q) == FALSE

\* asyncio.Queue.empty()
QueueEmpty(q) == q = <<>>

\* Variant: the item taken is put back at the end of the queue.
QueueRequeue(q) == Append(Tail(q), Head(q))

\* Variant: the head is read and left on the queue.
QueuePeek(q) == q

\* asyncio.Queue.get() on a non-empty queue: what is left on the queue
QueueGet(q) == Tail(q)

\* Variant: task_done() is not called.
TaskDoneSkipped(u) == u

\* asyncio.Queue.task_done(): the new count of unfinished tasks
TaskDone(u) == u - 1

\* Variant: the path of a download that succeeded is appended twice.
RecordTwice(ps, result, file) == IF result = "ok" THEN Append(Append(ps, file), file) ELSE ps

\* Variant: the path is appended whatever the download did.
RecordAlways(ps, result, file) == Append(ps, file)

\* Variant: only a non-2xx answer keeps the path off the list.
RecordUnlessStatus(ps, result, file) == IF result = "status" THEN ps ELSE Append(ps, file)

\* try: path = await to_thread(...); paths.append(path) / except Exception: print
Record(ps, result, file) == IF result = "ok" THEN Append(ps, file) ELSE ps

\* Variant: `except requests.HTTPError`.
CaughtStatusOnly(result) == result = "status"

\* `except Exception`: the exceptions of a download that the worker catches.
\* requests.HTTPError ("status") and the other request and OS errors
\* ("error") all derive from Exception.
Caught(result) == result \in {"status", "error"}

\* The condition of the worker's loop: `while not queue.empty()` in
\* github.py, `while True` in download.py.
LoopGuard(e, q) == IF e = "generic" THEN TRUE ELSE ~QueueEmpty(q)

\* `await queue.join()` goes on when no task is unfinished.
JoinReady(u) == u = 0

\* Variant: the tasks are not awaited.
GatherNoWait(ts) == TRUE

\* `await asyncio.gather(*tasks)` goes on when every task has ended.
GatherReady(ts) == \A w \in 1..Len(ts) : ts[w].pc \in {"done", "crashed"}

\* The calling coroutine up to its first suspension: the queue is filled
\* with `its`, `paths` is empty, `parallel` tasks are created, and the
\* caller stands at `await queue.join()`.
Enqueue(its) ==
  /\ items' = its
  /\ queue' = [i \in 1..Len(its) |-> i]
  /\ unfinished' = Len(its)
  /\ paths' = <<>>
  /\ tasks' = CreateTasks(parallel)
  /\ hist' = [i \in 1..Len(its) |-> [deq |-> 0, ok |-> 0, fail |-> 0]]
  /\ pc' = "join"
  /\ UNCHANGED <<err, fs>>

Raise(e) ==
  /\ pc' = "raised"
  /\ err' = e
  /\ UNCHANGED batch

\* async_download_artifacts / async_download_release: the range check
Call ==
  /\ pc = "call"
  /\ IF ValidParallel(parallel)
     THEN pc' = "list" /\ UNCHANGED <<err, batch>>
     ELSE Raise("ValueError")
  /\ UNCHANGED <<world, driver, target, net>>

\* async_download_artifacts (github.py and download.py): the catalog query
\* and the filling of the queue
ListArtifacts ==
  /\ pc = "list"
  /\ entry \in {"artifacts", "generic"}
  /\ net' = [net EXCEPT !.artifacts = @ + 1]
  /\ \/ Raise("HTTPError")
     \/ Enqueue(get_artifacts_download_urls(catalog))
  /\ UNCHANGED <<world, driver, target>>

\* async_download_release: the release list, the selection by id and the
\* filling of the queue
ListReleaseAssets ==
  /\ pc = "list"
  /\ entry = "release"
  /\ net' = [net EXCEPT !.releases = @ + 1]
  /\ \/ Raise("HTTPError")
     \/ LET i == SelectRelease(releases, target)
        IN IF i = 0 THEN Raise("ValueError") ELSE Enqueue(ReleaseItems(releases[i]))
  /\ UNCHANGED <<world, driver, target>>

\* coro(): the test of the loop and `name, url = await queue.get()`, followed
\* by the call of to_thread, or the return of the task.  queue.get() does
\* not suspend on a non-empty queue, so test and dequeue are one step; on an
\* empty queue it suspends the task until an item is put ("blocked").
TakeNext(w, q, ts, h) ==
  IF ~LoopGuard(entry, q)
  THEN /\ tasks' = [ts EXCEPT ![w] = [pc |-> "done", item |-> 0, result |-> "none"]]
       /\ queue' = q
       /\ hist' = h
  ELSE IF q = <<>>
  THEN /\ tasks' = [ts EXCEPT ![w] = [pc |-> "blocked", item |-> 0, result |-> "none"]]
       /\ queue' = q
       /\ hist' = h
  ELSE /\ tasks' = [ts EXCEPT ![w] = [pc |-> "req", item |-> Head(q), result |-> "none"]]
       /\ queue' = QueueGet(q)
       /\ hist' = [h EXCEPT ![Head(q)].deq = @ + 1]

\* A created task runs for the first time.  The event loop runs its ready
\* callbacks in the order they were registered: the tasks start in the order
\* of their creation.
WorkerStart(w) ==
  /\ pc \in {"join", "gather"}
  /\ tasks[w].pc = "new"
  /\ \A v \in 1..(w - 1) : tasks[v].pc # "new"
  /\ TakeNext(w, queue, tasks, hist)
  /\ UNCHANGED <<world, driver, target, pc, err, net, items, unfinished, paths, fs>>

\* Variant: the file is opened for appending ("ab").
OpenedForAppend(old, url) == IF old = ABSENT THEN Partial(url) ELSE MIXED

\* open(..., "wb"): the file is created or cut to length 0, whatever it held.
Opened(old, url) == Partial(url)

\* mkdir and open(..., "wb") of download_one_*
MkdirOpen(files, file, url) == [Mkdir(files) EXCEPT ![file] = Opened(files[file], url)]

\* Variant: raise_for_status() is called inside the `with` block, after the
\* directory was made and the file opened.
RefusedAfterOpen(files, file, url) == MkdirOpen(files, file, url)

\* The directory after a request that was answered with a non-2xx status:
\* raise_for_status() raises before mkdir and open are reached.
Refused(files, file, url) == files

\* download_one_*: requests.get, raise_for_status, mkdir, open(..., "wb").
\* The result is "status" for a non-2xx answer and "error" for any other
\* exception: of the request (nothing is made) or of mkdir or open (the
\* directory may have been made).
ThreadRequest(w) ==
  /\ tasks[w].pc = "req"
  /\ net' = [net EXCEPT !.download = @ + 1]
  /\ LET it == items[tasks[w].item]
         file == FileOf(entry, it.name)
     IN \/ /\ tasks' = [tasks EXCEPT ![w].pc = "ret", ![w].result = "status"]
           /\ fs' = Refused(fs, file, it.url)
        \/ /\ tasks' = [tasks EXCEPT ![w].pc = "ret", ![w].result = "error"]
           /\ fs' \in {fs, Mkdir(fs)}
        \/ /\ tasks' = [tasks EXCEPT ![w].pc = "write"]
           /\ fs' = MkdirOpen(fs, file, it.url)
  /\ UNCHANGED <<world, driver, target, pc, err, items, queue, unfinished, paths, hist>>

\* Another thread has opened the same file since worker w opened it, or is
\* still writing it: the two write the file at the same time.
SharedWrite(w, file) ==
  \/ fs[file] # Partial(items[tasks[w].item].url)
  \/ \E v \in Workers \ {w} :
       tasks[v].pc = "write" /\ FileOf(entry, items[tasks[v].item].name) = file

\* The content of the file when the thread of worker w has written its last
\* chunk and closed it.
Written(w, file) ==
  IF SharedWrite(w, file)
  THEN {Full(items[tasks[w].item].url), MIXED}
  ELSE {Full(items[tasks[w].item].url)}

\* download_one_*: the chunk loop, the closing of the file and the return;
\* "error" is a read or write error in the loop, which leaves the file cut.
ThreadWrite(w) ==
  /\ tasks[w].pc = "write"
  /\ LET it == items[tasks[w].item]
         file == FileOf(entry, it.name)
     IN \/ /\ tasks' = [tasks EXCEPT ![w].pc = "ret", ![w].result = "ok"]
           /\ \E content \in Written(w, file) : fs' = [fs EXCEPT ![file] = content]
        \/ /\ tasks' = [tasks EXCEPT ![w].pc = "ret", ![w].result = "error"]
           /\ fs' = fs
  /\ UNCHANGED <<world, driver, target, pc, err, net, items, queue, unfinished, paths, hist>>

\* coro(): the task resumes after to_thread: append or print, task_done in
\* the finally clause, and the next turn of the loop; an exception that is
\* not caught ends the task after the finally clause.  The callback of a
\* finished thread is registered behind the first steps of all tasks.
\* download.py keeps no list of paths.
WorkerResume(w) ==
  /\ tasks[w].pc = "ret"
  /\ \A v \in Workers : tasks[v].pc # "new"
  /\ LET i == tasks[w].item
         r == tasks[w].result
         h == IF r = "ok" THEN [hist EXCEPT ![i].ok = @ + 1]
                          ELSE [hist EXCEPT ![i].fail = @ + 1]
     IN /\ unfinished' = TaskDone(unfinished)
        /\ IF r = "ok" \/ Caught(r)
           THEN /\ paths' = IF entry = "generic" THEN paths
                            ELSE Record(paths, r, FileOf(entry, items[i].name))
                /\ TakeNext(w, queue, tasks, h)
           ELSE /\ paths' = paths
                /\ tasks' = [tasks EXCEPT ![w] = [pc |-> "crashed", item |-> 0, result |-> r]]
                /\ queue' = queue
                /\ hist' = h
  /\ UNCHANGED <<world, driver, target, pc, err, net, items, fs>>

\* `await queue.join()` returns once no task is unfinished.
Join ==
  /\ pc = "join"
  /\ JoinReady(unfinished)
  /\ pc' = "gather"
  /\ UNCHANGED <<world, driver, target, err, net, batch>>

\* `await asyncio.gather(*tasks)`, then `return paths`; gather raises the
\* exception of a task that ended with one (github.py: no return_exceptions).
Gather ==
  /\ pc = "gather"
  /\ GatherReady(tasks)
  /\ IF entry # "generic" /\ \E w \in Workers : tasks[w].pc = "crashed"
     THEN pc' = "raised" /\ err' = "Exception"
     ELSE pc' = "returned" /\ err' = err
  /\ UNCHANGED <<world, driver, target, net, batch>>

\* ------------------------------------------------------------ drivers
\* toolbox/artifact_downloader.py ("artifact_downloader"),
\* toolbox/release_downloader.py ("release_downloader") and
\* artifact_downloader.py ("legacy_artifact_downloader").  --save-to is taken
\* not to name an existing file.

ArtifactProgs == {"artifact_downloader", "legacy_artifact_downloader"}

\* validate_args / the checks of the legacy script
ArgsValid ==
  CASE prog = "artifact_downloader" -> ~(parallel < 1)
    [] prog = "release_downloader" ->
         ~(parallel < 1) /\ ~(argId # NONE /\ argTag # NONE)
    [] prog = "legacy_artifact_downloader" ->
         ~(parallel < 1 \/ parallel > LEGACY_PARALLEL_MAX)

\* An exception leaves main.
Fail(e) ==
  /\ pc' = "raised"
  /\ err' = e
  /\ UNCHANGED <<target, workflow>>

\* main: parse_args, validate_args; the legacy script then makes save_dir
Validate ==
  /\ pc = "main"
  /\ IF ArgsValid THEN pc' = "select" /\ err' = err ELSE pc' = "raised" /\ err' = "RuntimeError"
  /\ fs' = IF ArgsValid /\ prog = "legacy_artifact_downloader" THEN Mkdir(fs) ELSE fs
  /\ UNCHANGED <<world, driver, target, net, items, queue, unfinished, paths, tasks, hist>>

\* main of toolbox/artifact_downloader.py: `if run_id == 0:` is false, the
\* given run id is used as it is.
UseRunId ==
  /\ pc = "select"
  /\ prog = "artifact_downloader"
  /\ argId # 0
  /\ target' = argId
  /\ pc' = "call"
  /\ UNCHANGED <<world, driver, err, net, batch>>

\* artifact_workflow: the workflows with the wanted name
MatchingWorkflows(wfs) == SelectSeq(wfs, LAMBDA wf : wf.name = TARGET_WORKFLOW)

\* Variant: only a missing workflow is rejected.
RejectedIfMissing(found) == Len(found) = 0

\* artifact_workflow: `if len(multi_platform_workflow) != 1: raise`
WorkflowRejected(found) == Len(found) # 1

\* artifact_workflow, called first by latest_artifact_run
ListWorkflows ==
  /\ pc = "select"
  /\ prog \in ArtifactProgs
  /\ prog = "artifact_downloader" => argId = 0
  /\ net' = [net EXCEPT !.workflows = @ + 1]
  /\ \/ Fail("HTTPError")
     \/ LET found == MatchingWorkflows(workflows)
        IN IF WorkflowRejected(found)
           THEN Fail("RuntimeError")
           ELSE /\ workflow' = found[1].id
                /\ pc' = "runs"
                /\ UNCHANGED <<target, err>>
  /\ UNCHANGED <<world, k, extracted, exitCode, batch>>

\* sorted(..., key=..., reverse=True): a stable sort, elements with equal keys
\* keep their order.  Insert(s, x) puts x behind the elements of the
\* descending s whose key is at least that of x.
\* The sort key: `lambda run: run.created_at`, `lambda release:
\* release.published_at`.  The timestamps are ISO 8601 strings of one format,
\* which compare as the times they denote: they are numbered in time order.
SortKey(x) == IF "created_at" \in DOMAIN x THEN x.created_at ELSE x.published_at

\* Variant: x goes in front of the elements with an equal key, as a sort
\* that is not stable may do.
RECURSIVE InsertBeforeEqual(_, _)
InsertBeforeEqual(s, x) ==
  IF s = <<>> THEN <<x>>
  ELSE IF SortKey(Head(s)) > SortKey(x) THEN <<Head(s)>> \o InsertBeforeEqual(Tail(s), x)
  ELSE <<x>> \o s

RECURSIVE Insert(_, _)
Insert(s, x) ==
  IF s = <<>> THEN <<x>>
  ELSE IF SortKey(Head(s)) >= SortKey(x) THEN <<Head(s)>> \o Insert(Tail(s), x)
  ELSE <<x>> \o s

RECURSIVE SortedDesc(_, _)
SortedDesc(s, n) ==
  IF n = 0 THEN <<>> ELSE Insert(SortedDesc(s, n - 1), s[n])

\* latest_artifact_run: the runs of the workflow
ArtifactRuns(rs, wf) == SelectSeq(rs, LAMBDA run : run.workflow_id = wf)

\* Variant: the list is taken to arrive newest first and is not sorted.
FirstListedRun(rs) == rs[1]

\* Variant: the newest completed run is taken when there is one.
NewestCompletedRun(rs) ==
  LET sorted == SortedDesc(rs, Len(rs))
      completed == SelectSeq(sorted, LAMBDA run : run.status = "completed")
  IN IF completed # <<>> THEN completed[1] ELSE sorted[1]

\* latest_artifact_run: sorted(artifact_runs, key=created_at, reverse=True)[0]
LatestRun(rs) == SortedDesc(rs, Len(rs))[1]

\* latest_artifact_run after artifact_workflow, and `run_id = run.id`
ListRuns ==
  /\ pc = "runs"
  /\ net' = [net EXCEPT !.runs = @ + 1]
  /\ \/ Fail("HTTPError")
     \/ LET artifact_runs == ArtifactRuns(runs, workflow)
        IN IF Len(artifact_runs) = 0
           THEN Fail("RuntimeError")
           ELSE IF LatestRun(artifact_runs).status # "completed"
           THEN Fail("RuntimeError")
           ELSE /\ target' = LatestRun(artifact_runs).id
                /\ pc' = "call"
                /\ UNCHANGED <<workflow, err>>
  /\ UNCHANGED <<world, k, extracted, exitCode, batch>>

\* Variant: an unknown keyword falls back to the first release.
FirstRelease(rels, keyword) == IF Len(rels) > 0 THEN 1 ELSE 0

\* find_release: index of the first release with the id or tag, 0 for none
find_release(rels, keyword) ==
  LET hit(i) == rels[i].id = keyword \/ rels[i].tag_name = keyword
  IN IF \E i \in 1..Len(rels) : hit(i)
     THEN CHOOSE i \in 1..Len(rels) : hit(i) /\ \A j \in 1..(i - 1) : ~hit(j)
     ELSE 0

\* get_latest_release: sorted(releases, key=published_at, reverse=True)[0]
LatestRelease(rels) == SortedDesc(rels, Len(rels))[1]

\* main of toolbox/release_downloader.py: get_release()
GetRelease ==
  /\ pc = "select"
  /\ prog = "release_downloader"
  /\ net' = [net EXCEPT !.releases = @ + 1]
  /\ \/ Fail("HTTPError")
     \/ IF argId # NONE \/ argTag # NONE
        THEN LET i == find_release(releases, IF argId # NONE THEN argId ELSE argTag)
             IN IF i = 0
                THEN Fail("RuntimeError")
                ELSE target' = releases[i].id /\ pc' = "call" /\ UNCHANGED <<workflow, err>>
        ELSE IF Len(releases) = 0
        THEN Fail("RuntimeError")
        ELSE /\ target' = LatestRelease(releases).id
             /\ pc' = "call"
             /\ UNCHANGED <<workflow, err>>
  /\ UNCHANGED <<world, k, extracted, exitCode, batch>>

\* Path.stem: the name without its last suffix
Stem(file) == IF Len(file) > 1 THEN SubSeq(file, 1, Len(file) - 1) ELSE file

\* The directory an archive is unpacked into: save_to / stem in the toolbox
\* script, save_dir itself (<<>>) in the legacy script.
ExtractDir(file) == IF prog = "artifact_downloader" THEN Stem(file) ELSE <<>>

\* main after GitHub.download_artifacts / GitHub.download_release returned
Downloaded ==
  /\ pc = "returned"
  /\ prog # "api"
  /\ IF prog \in ArtifactProgs /\ unzip
     THEN pc' = "unzip" /\ k' = 1 /\ exitCode' = exitCode
     ELSE pc' = "exit" /\ k' = k /\ exitCode' = 0
  /\ UNCHANGED <<world, workflow, extracted, target, err, net, batch>>

\* Variant: the archive is deleted whatever unpack_archive did.
UnlinkedAlways(unpacked, content) == ABSENT

\* `shutil.unpack_archive(...)` followed by `artifact.unlink()`: the archive
\* after the turn.  An exception of unpack_archive leaves the loop before
\* unlink is reached.
Unlinked(unpacked, content) == IF unpacked THEN ABSENT ELSE content

\* One turn of `for artifact in downloaded_artifacts`: unpack_archive, unlink.
\* unpack_archive raises shutil.ReadError (or another exception) for an
\* archive it cannot unpack; nothing in main catches it.
Unzip ==
  /\ pc = "unzip"
  /\ k <= Len(paths)
  /\ \E unpacked \in BOOLEAN :
       /\ fs' = [fs EXCEPT ![paths[k]] = Unlinked(unpacked, @)]
       /\ IF unpacked
          THEN /\ extracted' = Append(extracted, [archive |-> paths[k], dir |-> ExtractDir(paths[k])])
               /\ k' = k + 1
               /\ UNCHANGED <<pc, err>>
          ELSE /\ pc' = "raised"
               /\ err' = "ReadError"
               /\ UNCHANGED <<extracted, k>>
  /\ UNCHANGED <<world, workflow, exitCode, target, net, items, queue, unfinished, paths,
                 tasks, hist>>

\* The unzip loop is through: main returns.
Unzipped ==
  /\ pc = "unzip"
  /\ k > Len(paths)
  /\ pc' = "exit"
  /\ exitCode' = 0
  /\ UNCHANGED <<world, workflow, k, extracted, target, err, net, batch>>

\* An exception nothing catches ends the process with exit code 1.
Uncaught ==
  /\ pc = "raised"
  /\ prog # "api"
  /\ pc' = "exit"
  /\ exitCode' = 1
  /\ UNCHANGED <<world, workflow, k, extracted, target, err, net, batch>>

\* ------------------------------------------------------------ project.py
\* The build driver ("project"): parse_args, create_tasks, run_tasks and the
\* exit code.  A task is named by the flag that asks for it.

FLAGS == {"version", "setup", "clean", "cmake", "build", "test", "all"}

\* create_tasks: the order of its `if args.<flag>: tasks.append(...)`
TaskOrder == <<"setup", "clean", "cmake", "build", "test">>

\* parse_args: `if args.all:` sets setup, cmake, build and test
parse_args(given) ==
  IF "all" \in given THEN given \cup {"setup", "cmake", "build", "test"} ELSE given

create_tasks(args) == SelectSeq(TaskOrder, LAMBDA t : t \in args)

\* The return codes a task is tried with.
Retcodes == 0..MaxRetcode

\* Variant: the loop goes on after a failure.
StopNever(retcode) == FALSE

\* run_tasks: `if results[-1].retcode != 0: break`
StopOnFailure(retcode) == retcode # 0

\* operator.or_ on non-negative integers
RECURSIVE or_(_, _)
or_(a, b) ==
  IF a = 0 THEN b
  ELSE IF b = 0 THEN a
  ELSE (IF a % 2 = 1 \/ b % 2 = 1 THEN 1 ELSE 0) + 2 * or_(a \div 2, b \div 2)

\* reduce(or_, [t.retcode for t in task_results]) over the first n results
RECURSIVE Reduce(_, _)
Reduce(rs, n) == IF n = 1 THEN rs[1].retcode ELSE or_(Reduce(rs, n - 1), rs[n].retcode)

\* main up to the call of run_tasks: --version and an empty task list return 0
ProjectMain ==
  /\ pc = "main"
  /\ prog = "project"
  /\ LET args == parse_args(flags)
     IN IF "version" \in args
        THEN todo' = todo /\ pc' = "exit" /\ exitCode' = 0
        ELSE /\ todo' = create_tasks(args)
             /\ IF todo' = <<>>
                THEN pc' = "exit" /\ exitCode' = 0
                ELSE pc' = "tasks" /\ exitCode' = exitCode
  /\ UNCHANGED <<inputs, calls, prior, flags, results, workflow, k, extracted, target, err,
                 net, batch>>

\* run_tasks: one turn of `for task in tasks`: run_task, append, the test of
\* the return code.  An exception of the task's function leaves run_tasks
\* and main.
RunTask ==
  /\ pc = "tasks"
  /\ LET n == Len(results) + 1
     IN \/ \E retcode \in Retcodes :
             /\ results' = Append(results, [task |-> todo[n], retcode |-> retcode])
             /\ pc' = IF StopOnFailure(retcode) \/ n = Len(todo) THEN "ran" ELSE "tasks"
             /\ err' = err
        \/ /\ results' = results
           /\ pc' = "raised"
           /\ err' = "Exception"
  /\ UNCHANGED <<inputs, calls, prior, flags, todo, driver, target, net, batch>>

\* main after run_tasks: the return code is the or of the results' codes
ProjectExit ==
  /\ pc = "ran"
  /\ pc' = "exit"
  /\ exitCode' = Reduce(results, Len(results))
  /\ UNCHANGED <<world, workflow, k, extracted, target, err, net, batch>>

\* ------------------------------------------------------ specifications

\* The first call on a directory.
FirstCall ==
  /\ calls = 1
  /\ prior = fs

EmptyBatch ==
  /\ items = <<>>
  /\ queue = <<>>
  /\ unfinished = 0
  /\ paths = <<>>
  /\ tasks = <<>>
  /\ hist = <<>>
  /\ fs = NoDirectory
  /\ FirstCall

\* Release tags are strings; they are numbered from TAG_BASE up, apart from
\* the integer ids.
TagOf(id) == TAG_BASE + id

Release(id, at, assets) ==
  [id |-> id, tag_name |-> TagOf(id), published_at |-> at, assets |-> assets]

IdleDriver ==
  /\ workflow = 0
  /\ k = 0
  /\ extracted = <<>>
  /\ exitCode = RUNNING

\* project.py is not the program that runs.
IdleRunner ==
  /\ flags = {}
  /\ todo = <<>>
  /\ results = <<>>

\* The asset lists of a release that are tried: up to n assets with
\* different names (a release has no two assets of one name).
AssetLists(n) ==
  {[i \in 1..Cardinality(S) |->
      AssetOrder[CHOOSE x \in S : Cardinality({y \in S : y < x}) = i - 1]] :
     S \in {T \in SUBSET (1..Len(AssetOrder)) : Cardinality(T) <= n}}

\* GitHub.download_artifacts / GitHub.download_release of github.py and
\* download_artifacts of download.py, called as a library.
Init ==
  /\ prog = "api"
  /\ parallel \in ParallelValues
  /\ argId = NONE
  /\ argTag = NONE
  /\ unzip = FALSE
  /\ workflows = <<>>
  /\ runs = <<>>
  /\ \/ /\ entry \in {"artifacts", "generic"}
        /\ target = 1
        /\ catalog \in SeqsUpTo(ArtifactNames, MaxItems)
        /\ releases = <<>>
     \/ /\ entry = "release"
        /\ target \in {1, 2}
        /\ catalog = <<>>
        /\ releases \in {<<Release(1, 1, a)>> : a \in AssetLists(MaxItems)}
  /\ IdleDriver
  /\ IdleRunner
  /\ pc = "call"
  /\ err = "none"
  /\ net = NoNet
  /\ EmptyBatch

Next ==
  \/ Call
  \/ ListArtifacts
  \/ ListReleaseAssets
  \/ \E w \in Workers : WorkerStart(w)
  \/ \E w \in Workers : ThreadRequest(w)
  \/ \E w \in Workers : ThreadWrite(w)
  \/ \E w \in Workers : WorkerResume(w)
  \/ Join
  \/ Gather

Spec == Init /\ [][Next]_vars

\* The command-line drivers, over small remote worlds.
WorkflowLists ==
  {wfs \in SeqsUpTo([id : 1..MaxWorkflows, name : {TARGET_WORKFLOW, OTHER_WORKFLOW}],
                    MaxWorkflows) : \A i \in 1..Len(wfs) : wfs[i].id = i}

RunLists ==
  {rs \in SeqsUpTo([id : 1..MaxRuns, workflow_id : 1..MaxWorkflows,
                    status : STATUSES, created_at : {1}],
                   MaxRuns) : \A i \in 1..Len(rs) : rs[i].id = i}

DriverAssets == {<<>>, <<<<"a">>>>, <<SRC_ZIP>>}

ReleaseLists ==
  {rels \in SeqsUpTo({Release(i, 1, a) : i \in 1..MaxReleases,
                                         a \in DriverAssets},
                     MaxReleases) : \A i \in 1..Len(rels) : rels[i].id = i}

\* The artifacts of a run and the assets of a release in these worlds
DriverCatalogs == {<<>>, <<<<"a">>>>, <<<<"a">>, <<"b">>>>, <<<<"a">>, <<"a">>>>}

\* an id no run and no release has
UNKNOWN_ID == 9

DriverInit ==
  /\ \/ /\ prog = "artifact_downloader"
        /\ entry = "artifacts"
        /\ parallel \in ParallelValues
        /\ argTag = NONE
        /\ unzip \in BOOLEAN
        /\ catalog \in DriverCatalogs
        /\ releases = <<>>
        /\ \/ /\ argId = 0
              /\ workflows \in WorkflowLists
              /\ runs \in RunLists
           \/ /\ argId \in {1, UNKNOWN_ID}
              /\ workflows = <<>>
              /\ runs \in RunLists
     \/ /\ prog = "legacy_artifact_downloader"
        /\ entry = "artifacts"
        /\ parallel \in ParallelValues \cup {LEGACY_PARALLEL_MAX + 1}
        /\ argId = NONE
        /\ argTag = NONE
        /\ unzip \in BOOLEAN
        /\ catalog \in DriverCatalogs
        /\ releases = <<>>
        /\ workflows \in WorkflowLists
        /\ runs \in RunLists
     \/ /\ prog = "release_downloader"
        /\ entry = "release"
        /\ parallel \in ParallelValues
        /\ \/ argId \in {NONE, 1, UNKNOWN_ID} /\ argTag = NONE
           \/ argId \in {NONE, 1} /\ argTag \in {TagOf(1), TagOf(UNKNOWN_ID)}
        /\ unzip = FALSE
        /\ catalog = <<>>
        /\ releases \in ReleaseLists
        /\ workflows = <<>>
        /\ runs = <<>>
  /\ target = 0
  /\ IdleDriver
  /\ IdleRunner
  /\ pc = "main"
  /\ err = "none"
  /\ net = NoNet
  /\ EmptyBatch

DriverNext ==
  \/ Validate
  \/ UseRunId
  \/ ListWorkflows
  \/ ListRuns
  \/ GetRelease
  \/ Call
  \/ ListArtifacts
  \/ ListReleaseAssets
  \/ \E w \in Workers : WorkerStart(w)
  \/ \E w \in Workers : ThreadRequest(w)
  \/ \E w \in Workers : ThreadWrite(w)
  \/ \E w \in Workers : WorkerResume(w)
  \/ Join
  \/ Gather
  \/ Downloaded
  \/ Unzip
  \/ Unzipped
  \/ Uncaught

DriverSpec == DriverInit /\ [][DriverNext]_vars

\* The selection of the latest run / the latest release, over run and
\* release lists with different timestamps, up to the call of the download
\* function.
\* The run list with the workflow, status and created_at that f gives to
\* each of its n runs, and the release list with the published_at that f
\* gives to each of its n releases.
RunFields == {1, 2} \X STATUSES \X (1..MaxTime)

TimedRuns(f, n) ==
  [i \in 1..n |-> [id |-> i, workflow_id |-> f[i][1], status |-> f[i][2],
                   created_at |-> f[i][3]]]

TimedReleases(f, n) == [i \in 1..n |-> Release(i, f[i], <<>>)]

SelectWorkflows ==
  {<<[id |-> 1, name |-> TARGET_WORKFLOW]>>,
   <<[id |-> 1, name |-> OTHER_WORKFLOW], [id |-> 2, name |-> TARGET_WORKFLOW]>>}

SelectInit ==
  /\ \/ /\ \/ prog = "artifact_downloader" /\ argId = 0
           \/ prog = "legacy_artifact_downloader" /\ argId = NONE
        /\ entry = "artifacts"
        /\ workflows \in SelectWorkflows
        /\ \E n \in 0..MaxListed : \E f \in [1..n -> RunFields] : runs = TimedRuns(f, n)
        /\ releases = <<>>
     \/ /\ prog = "release_downloader"
        /\ argId = NONE
        /\ entry = "release"
        /\ workflows = <<>>
        /\ runs = <<>>
        /\ \E n \in 0..MaxListed : \E f \in [1..n -> 1..MaxTime] :
             releases = TimedReleases(f, n)
  /\ parallel = PARALLEL_MIN
  /\ argTag = NONE
  /\ unzip = FALSE
  /\ catalog = <<>>
  /\ target = 0
  /\ IdleDriver
  /\ IdleRunner
  /\ pc = "main"
  /\ err = "none"
  /\ net = NoNet
  /\ EmptyBatch

SelectNext ==
  \/ Validate
  \/ ListWorkflows
  \/ ListRuns
  \/ GetRelease
  \/ Uncaught

SelectSpec == SelectInit /\ [][SelectNext]_vars

\* The same batch run again on the same directory against the same remote
\* content: GitHub.download_artifacts / GitHub.download_release is called
\* once more with the same arguments after it returned.
Rerun ==
  /\ pc = "returned"
  /\ prog = "api"
  /\ calls < MaxCalls
  /\ calls' = calls + 1
  /\ prior' = fs
  /\ pc' = "call"
  /\ items' = <<>>
  /\ queue' = <<>>
  /\ unfinished' = 0
  /\ paths' = <<>>
  /\ tasks' = <<>>
  /\ hist' = <<>>
  /\ UNCHANGED <<inputs, runner, driver, target, err, net, fs>>

RerunParallel == {PARALLEL_MIN, PARALLEL_MIN + 1}

RerunInit ==
  /\ prog = "api"
  /\ parallel \in RerunParallel
  /\ argId = NONE
  /\ argTag = NONE
  /\ unzip = FALSE
  /\ workflows = <<>>
  /\ runs = <<>>
  /\ target = 1
  /\ \/ /\ entry = "artifacts"
        /\ catalog \in DriverCatalogs
        /\ releases = <<>>
     \/ /\ entry = "release"
        /\ catalog = <<>>
        /\ releases \in {<<Release(1, 1, a)>> : a \in DriverAssets}
  /\ items = <<>>
  /\ queue = <<>>
  /\ unfinished = 0
  /\ paths = <<>>
  /\ tasks = <<>>
  /\ hist = <<>>
  /\ fs \in {NoDirectory, StaleDirectory}
  /\ FirstCall
  /\ IdleDriver
  /\ IdleRunner
  /\ pc = "call"
  /\ err = "none"
  /\ net = NoNet

RerunNext ==
  \/ Next
  \/ Rerun

RerunSpec == RerunInit /\ [][RerunNext]_vars

\* The event loop runs every ready task and every download thread runs on:
\* a step that stays possible is taken.
FairSpec == Spec /\ WF_vars(Next)

\* project.py started with any set of flags.
ProjectInit ==
  /\ prog = "project"
  /\ entry = "none"
  /\ parallel = PARALLEL_MIN
  /\ argId = NONE
  /\ argTag = NONE
  /\ unzip = FALSE
  /\ workflows = <<>>
  /\ runs = <<>>
  /\ catalog = <<>>
  /\ releases = <<>>
  /\ target = 0
  /\ IdleDriver
  /\ flags \in SUBSET FLAGS
  /\ todo = <<>>
  /\ results = <<>>
  /\ pc = "main"
  /\ err = "none"
  /\ net = NoNet
  /\ EmptyBatch

ProjectNext == ProjectMain \/ RunTask \/ ProjectExit \/ Uncaught

ProjectSpec == ProjectInit /\ [][ProjectNext]_vars

\* ------------------------------------------------------------- claims

ItemIds == 1..Len(items)
Failed == {i \in ItemIds : hist[i].fail > 0}
Succeeded == {i \in ItemIds : hist[i].ok > 0}
Count(seq, x) == Cardinality({j \in 1..Len(seq) : seq[j] = x})
GitHubBatch == entry \in {"artifacts", "release"}
OutOfRange == parallel < PARALLEL_MIN \/ parallel > PARALLEL_MAX
NothingDone ==
  /\ items = <<>>
  /\ queue = <<>>
  /\ tasks = <<>>
  /\ paths = <<>>
  /\ \A f \in AllFiles : fs[f] = ABSENT

RECURSIVE SumOver(_, _)
SumOver(f, n) == IF n = 0 THEN 0 ELSE f[n] + SumOver(f, n - 1)
Started == SumOver([i \in ItemIds |-> hist[i].deq], Len(items))
Ended ==
  SumOver([i \in ItemIds |-> hist[i].ok + hist[i].fail], Len(items))
    + Cardinality({w \in Workers : tasks[w].pc = "ret"})

C2_FailureIsContained ==
  [][GitHubBatch =>
       /\ \A w \in Workers :
            (tasks[w].pc = "ret" /\ tasks[w].result # "ok" /\ tasks'[w] # tasks[w]) =>
              /\ tasks'[w].pc = IF queue = <<>> THEN "done" ELSE "req"
              /\ queue # <<>> => tasks'[w].item = Head(queue)
              /\ \A v \in Workers \ {w} : tasks'[v] = tasks[v]
              /\ pc' = pc
       /\ (pc # "returned" /\ pc' = "returned") =>
            /\ \A i \in ItemIds :
                 /\ hist[i].deq = 1
                 /\ i \notin Failed => Count(paths, FileOf(entry, items[i].name)) >= 1
            /\ net.download = Len(items)
            /\ (Len(items) = 5 /\ Cardinality(Failed) = 1) => Len(paths) = 4
    ]_vars

C2_Witness ==
  /\ GitHubBatch
  /\ pc = "returned"
  /\ Len(items) = 5
  /\ Cardinality(Failed) = 1
  /\ Len(paths) = 4

\* C3: when the batch returns, the queue is empty, no download is in flight,
\* every worker task has ended, and every dequeued item has its outcome
\* recorded.
C3_CompletionBarrier ==
  (GitHubBatch /\ pc = "returned") =>
    /\ queue = <<>>
    /\ unfinished = 0
    /\ \A w \in Workers : tasks[w].pc = "done"
    /\ Len(tasks) = parallel
    /\ \A i \in ItemIds : hist[i].deq = 1 /\ hist[i].ok + hist[i].fail = 1

C3_Witness ==
  /\ GitHubBatch
  /\ pc = "returned"
  /\ Len(tasks) = 2
  /\ Len(items) > Len(tasks)

\* C4: at every moment at most `parallel` downloads are in flight, and with
\* parallel = 1 at most one download has started and not ended.
C4_AtMostParallelInFlight ==
  GitHubBatch =>
    /\ Cardinality(InFlight) <= parallel
    /\ Started - Ended <= parallel
    /\ parallel = 1 => Started - Ended <= 1

C4_Witness ==
  /\ GitHubBatch
  /\ parallel = 2
  /\ Cardinality(InFlight) = 2
  /\ queue # <<>>

\* C5: no queued item is delivered twice: every item is dequeued at most
\* once, is held by at most one worker, is not on the queue once dequeued,
\* and is requested at most once.
C5_NoDoubleDelivery ==
  GitHubBatch =>
    /\ \A i \in ItemIds :
         /\ hist[i].deq <= 1
         /\ Count(queue, i) = 1 - hist[i].deq
         /\ Cardinality({w \in Workers : tasks[w].item = i}) <= hist[i].deq
    /\ net.download <= Len(items)
    /\ pc = "returned" => \A i \in ItemIds : hist[i].deq = 1

C5_Witness ==
  /\ GitHubBatch
  /\ \E w, v \in Workers :
       /\ w # v
       /\ tasks[w].pc = "req"
       /\ tasks[v].pc = "write"
       /\ tasks[w].item # tasks[v].item
  /\ queue # <<>>

\* C6: every batch of GitHub.async_download_artifacts / async_download_release
\* whose queue was filled returns, given that each download ends.
C6_BatchCompletes == (GitHubBatch /\ pc = "join") ~> (pc = "returned")

C6_Witness ==
  /\ GitHubBatch
  /\ pc = "returned"
  /\ Len(items) > 0
  /\ Len(items) < Len(tasks)

\* C7: a call with parallel < 1 or parallel > 20 raises ValueError and does
\* nothing else: no request, nothing queued, no task, no file.
C7_InvalidParallelFailsFirst ==
  (prog = "api" /\ OutOfRange) =>
    /\ pc \in {"call", "raised"}
    /\ pc = "raised" => err = "ValueError"
    /\ net = NoNet
    /\ NothingDone

C7_Witness ==
  /\ prog = "api"
  /\ parallel > PARALLEL_MAX
  /\ pc = "raised"
  /\ err = "ValueError"
  /\ \/ entry = "release" /\ Len(releases[1].assets) > 0
     \/ entry # "release" /\ Len(catalog) > 0

\* C8: a driver whose batch had a failed item exits with a non-zero code.
C8_FailureGivesNonZeroExit ==
  (prog # "api" /\ pc = "exit" /\ Failed # {}) => exitCode # 0

LatestMode ==
  \/ prog = "legacy_artifact_downloader"
  \/ prog = "artifact_downloader" /\ argId = 0
WorkflowsNamed == {i \in 1..Len(workflows) : workflows[i].name = TARGET_WORKFLOW}
RunsOf(wf) == {j \in 1..Len(runs) : runs[j].workflow_id = wf}
Newest(js) == {j \in js : \A j2 \in js : runs[j2].created_at <= runs[j].created_at}
HasKeyword(key) ==
  \E i \in 1..Len(releases) : releases[i].id = key \/ releases[i].tag_name = key
SelectionMustFail ==
  \/ /\ LatestMode
     /\ \/ Cardinality(WorkflowsNamed) # 1
        \/ \E i \in WorkflowsNamed :
             \/ RunsOf(workflows[i].id) = {}
             \/ \A j \in Newest(RunsOf(workflows[i].id)) : runs[j].status # "completed"
  \/ /\ prog = "release_downloader"
     /\ \/ argId # NONE /\ ~HasKeyword(argId)
        \/ argId = NONE /\ argTag # NONE /\ ~HasKeyword(argTag)
        \/ argId = NONE /\ argTag = NONE /\ releases = <<>>

\* C9: a driver whose selection has to fail (workflow missing or ambiguous,
\* no run, newest run not completed, no release, unknown release id or tag)
\* issues no artifact listing and no download request, starts no batch,
\* writes no file, and exits with a non-zero code; a download request is
\* only ever issued after a selection that succeeded.
C9_SelectionBeforeDownload ==
  /\ (prog # "api" /\ SelectionMustFail) =>
       /\ pc \in {"main", "select", "runs", "raised", "exit"}
       /\ target = 0
       /\ net.download = 0
       /\ net.artifacts = 0
       /\ NothingDone
       /\ pc = "exit" => exitCode # 0
  /\ (prog # "api" /\ net.download > 0) => target # 0

C9_Witness ==
  /\ prog = "release_downloader"
  /\ argId = UNKNOWN_ID
  /\ releases # <<>>
  /\ parallel = 2
  /\ pc = "exit"
  /\ exitCode = 1
  /\ net.releases = 1
  /\ net.download = 0

\* C10: resolving the latest run with no or several workflows of the wanted
\* name fails, and the runs are never listed; the runs are listed only
\* after the workflows were.
C10_WorkflowCheckedBeforeRuns ==
  /\ (LatestMode /\ Cardinality(WorkflowsNamed) # 1) =>
       /\ net.runs = 0
       /\ target = 0
       /\ pc \in {"main", "select", "raised", "exit"}
       /\ pc = "exit" => exitCode = 1
  /\ net.runs > 0 => net.workflows > 0

C10_Witness ==
  /\ LatestMode
  /\ Cardinality(WorkflowsNamed) = 2
  /\ runs # <<>>
  /\ pc = "exit"
  /\ err = "RuntimeError"
  /\ net.workflows = 1
  /\ net.runs = 0

\* C11: when the latest run is selected, it is a run of the one workflow with
\* the wanted name and no run of that workflow has a greater created_at; when
\* the latest release is selected, no listed release has a greater
\* published_at; and with no release listed none is selected.
C11_LatestHasMaxTimestamp ==
  /\ (LatestMode /\ pc = "call") =>
       /\ Cardinality(WorkflowsNamed) = 1
       /\ target \in 1..Len(runs)
       /\ \E i \in WorkflowsNamed :
            /\ runs[target].workflow_id = workflows[i].id
            /\ \A j \in RunsOf(workflows[i].id) :
                 runs[j].created_at <= runs[target].created_at
  /\ (prog = "release_downloader" /\ argId = NONE /\ argTag = NONE) =>
       /\ pc = "call" =>
            \E i \in 1..Len(releases) :
              /\ releases[i].id = target
              /\ \A j \in 1..Len(releases) :
                   releases[j].published_at <= releases[i].published_at
       /\ releases = <<>> => pc \in {"main", "select", "raised", "exit"} /\ target = 0

C11_Witness ==
  /\ LatestMode
  /\ pc = "call"
  /\ Len(runs) = 3
  /\ \A j \in 1..3 : runs[j].status = "completed" /\ runs[j].workflow_id = workflow
  /\ runs[1].created_at = 1
  /\ runs[2].created_at = 3
  /\ runs[3].created_at = 2
  /\ target = 2

\* C12: latest_artifact_run returns only a completed run that has the greatest
\* created_at of its workflow, never an older one; and when no run with the
\* greatest created_at of the workflow is completed, it raises and no run is
\* selected.  (Of several runs with the same greatest created_at the first
\* listed one decides.)
C12_LatestMustBeCompleted ==
  LatestMode =>
    /\ pc = "call" =>
         /\ target \in 1..Len(runs)
         /\ runs[target].status = "completed"
         /\ target \in Newest(RunsOf(runs[target].workflow_id))
    /\ \A i \in WorkflowsNamed :
         (\A j \in Newest(RunsOf(workflows[i].id)) : runs[j].status # "completed") =>
           /\ target = 0
           /\ pc \in {"main", "select", "runs", "raised", "exit"}
           /\ net.runs > 0 => pc \in {"raised", "exit"} /\ err \in {"RuntimeError", "HTTPError"}

C12_Witness ==
  /\ LatestMode
  /\ Len(runs) = 2
  /\ runs[1] = [id |-> 1, workflow_id |-> workflow, status |-> "completed", created_at |-> 1]
  /\ runs[2] = [id |-> 2, workflow_id |-> workflow, status |-> "in_progress", created_at |-> 2]
  /\ net.runs = 1
  /\ pc = "exit"
  /\ err = "RuntimeError"
  /\ exitCode = 1
  /\ target = 0

\* C13: the artifact drivers request a download only for a run whose status
\* is completed, with --run-id as well as without.
C13_DownloadOnlyFromCompleted ==
  (prog \in ArtifactProgs /\ net.download > 0) =>
    \A j \in 1..Len(runs) : runs[j].id = target => runs[j].status = "completed"

\* C14: a driver given a --parallel outside 1..20 issues no request at all
\* and fails, and a driver given a value inside 1..20 (and arguments that are
\* valid otherwise) is not stopped by the validation of its arguments.
C14_ExactlyValidatedRange ==
  prog # "api" =>
    /\ OutOfRange => net = NoNet
    /\ (~OutOfRange /\ ~(argId # NONE /\ argTag # NONE)) => pc = "main" \/ ArgsValid

TargetOf(i) == FileOf(entry, items[i].name)
DistinctTargets == \A i, j \in ItemIds : i # j => TargetOf(i) # TargetOf(j)
AllSucceeded == \A i \in ItemIds : hist[i].ok = 1
\* Every target file holds what a complete download of an item left there.
LeftByCompleteRun(dir) ==
  \A i \in ItemIds : \E j \in ItemIds : TargetOf(j) = TargetOf(i) /\ dir[TargetOf(i)] = Full(items[j].url)

Archives(s) == {s[j].archive : j \in 1..Len(s)}
UnzipPhase == prog \in ArtifactProgs /\ unzip /\ k > 0

\* C16: the unzip loop unpacks and deletes only archives of items whose
\* download succeeded: every unpacked archive is the target file of a
\* successful item, no step of the loop touches another file, and the file
\* of a failed item is neither unpacked nor deleted.
C16_ExtractOnlyDownloaded ==
  [][UnzipPhase =>
       /\ \A f \in AllFiles :
            (fs'[f] # fs[f] \/ f \in Archives(extracted') \ Archives(extracted)) =>
              /\ \E i \in Succeeded : TargetOf(i) = f
              /\ \A i \in Failed : TargetOf(i) # f
       /\ Archives(extracted') \subseteq {TargetOf(i) : i \in Succeeded}
    ]_vars

C16_Witness ==
  /\ UnzipPhase
  /\ pc = "exit"
  /\ exitCode = 0
  /\ Failed # {}
  /\ \E i \in Failed : fs[TargetOf(i)] = Partial(items[i].url)
  /\ Len(extracted) = 1

\* C17: in the unzip loop an archive is gone exactly when it was unpacked:
\* after a successful unpack_archive the archive is deleted, and the archive
\* whose unpacking failed, like those not reached, still exists.
C17_DeleteAfterExtraction ==
  UnzipPhase =>
    /\ \A i \in 1..Len(paths) : fs[paths[i]] = ABSENT <=> paths[i] \in Archives(extracted)
    /\ \A i \in 1..Len(paths) : i < k <=> paths[i] \in Archives(extracted)
    /\ err = "ReadError" => fs[paths[k]] = Full(items[CHOOSE i \in ItemIds : TargetOf(i) = paths[k]].url)

C17_Witness ==
  /\ UnzipPhase
  /\ Len(paths) = 2
  /\ k = 2
  /\ err = "ReadError"
  /\ pc = "exit"
  /\ fs[paths[1]] = ABSENT
  /\ fs[paths[2]] # ABSENT

\* C18: when unpacking one archive fails, the other downloaded archives are
\* still unpacked and the driver goes on to its end.
C18_ExtractionFailureContained ==
  (UnzipPhase /\ err = "ReadError") =>
    /\ pc # "raised"
    /\ pc = "exit" =>
         \A i \in 1..Len(paths) : i # k => paths[i] \in Archives(extracted)

NoRepeat(names) == \A i, j \in 1..Len(names) : i # j => names[i] # names[j]
\* The names the remote side lists for the batch are pairwise different.
RemoteNamesDistinct ==
  IF entry = "release"
  THEN \A i \in 1..Len(releases) : NoRepeat(releases[i].assets)
  ELSE NoRepeat(catalog)
Writers(f) == {w \in Workers : tasks[w].pc = "write" /\ TargetOf(tasks[w].item) = f}

\* C19: while the remote names are pairwise different, no two downloads in
\* flight have the same destination file open for writing, and no file is
\* left with the mixed content of two writers.
C19_NoWriteWriteConflict ==
  (GitHubBatch /\ RemoteNamesDistinct) =>
    \A f \in AllFiles : Cardinality(Writers(f)) <= 1 /\ fs[f] # MIXED

\* The entries of the remote answer the batch is made from.
RemoteEntries ==
  IF entry = "release"
  THEN Response(releases[SelectRelease(releases, target)].assets)
  ELSE Response(catalog)

\* C20: when a batch returns, every entry of the remote catalog, repeated
\* names included, was downloaded or reported as failed.
C20_NoCatalogItemDropped ==
  (GitHubBatch /\ pc = "returned") =>
    \A c \in 1..Len(RemoteEntries) :
      \E i \in ItemIds :
        /\ items[i] = RemoteEntries[c]
        /\ hist[i].ok + hist[i].fail = 1

\* C21: a run that lists no artifact makes the call raise: the queue is never
\* filled and no batch is started for it.
C21_EmptyListingRaises ==
  (GitHubBatch /\ entry = "artifacts" /\ catalog = <<>>) =>
    pc \in {"main", "select", "runs", "call", "list", "raised", "exit"}

BatchStarted == pc \in {"join", "gather", "returned"}

\* C22: a batch whose queue was filled with no item has created no worker
\* task, and a batch with items has created `parallel` of them or one per
\* item.
C22_NoWorkerOnEmptyQueue ==
  (GitHubBatch /\ BatchStarted) =>
    /\ items = <<>> => tasks = <<>>
    /\ items # <<>> => Len(tasks) \in {parallel, Len(items)}

NewestReleases ==
  {i \in 1..Len(releases) :
     \A j \in 1..Len(releases) : releases[j].published_at <= releases[i].published_at}
FirstOf(js) == CHOOSE j \in js : \A j2 \in js : j <= j2

\* C23: the selection is a function of the listed sequences: the latest run
\* is the first listed one of the runs of the workflow that share the
\* greatest created_at, and the latest release the first listed one of the
\* releases that share the greatest published_at; so two resolutions over
\* the same lists in the same order select the same run and the same
\* release, also when several share the greatest timestamp.
C23_SelectionDeterministic ==
  /\ (LatestMode /\ pc = "call") =>
       \A i \in WorkflowsNamed :
         target = runs[FirstOf(Newest(RunsOf(workflows[i].id)))].id
  /\ (prog = "release_downloader" /\ argId = NONE /\ argTag = NONE /\ pc = "call") =>
       target = releases[FirstOf(NewestReleases)].id

C23_Witness ==
  /\ LatestMode
  /\ pc = "call"
  /\ Len(runs) = 3
  /\ \A j \in 1..3 : runs[j].status = "completed" /\ runs[j].workflow_id = workflow
  /\ runs[1].created_at = 1
  /\ runs[2].created_at = 2
  /\ runs[3].created_at = 2
  /\ target = 2

\* The queue lost at most its head and got nothing.
OnlyDequeued(q, q2) == q2 = q \/ (q # <<>> /\ q2 = Tail(q))

\* C24: the queue is filled in one step, before any worker task has run, with
\* each item descriptor once; from then on the item set stays as it is and
\* the queue only ever loses its head: nothing is put on it again, and the
\* count of pending items never increases until the queue is drained.
C24_QueueFilledOnce ==
  [][GitHubBatch =>
       /\ (pc = "list" /\ pc' = "join") =>
            /\ queue' = [i \in 1..Len(items') |-> i]
            /\ \A w \in 1..Len(tasks') : tasks'[w].pc = "new"
       /\ BatchStarted =>
            /\ items' = items
            /\ OnlyDequeued(queue, queue')
            /\ Len(queue') <= Len(queue)
            /\ (queue' # queue) => \E w \in Workers : tasks[w].pc # "req" /\ tasks'[w].pc = "req"
       /\ (pc = "returned") => queue = <<>>]_vars

C24_Witness ==
  /\ GitHubBatch
  /\ pc = "join"
  /\ Len(items) = 3
  /\ queue = <<3>>
  /\ \E w \in Workers : tasks[w].pc = "ret" /\ tasks[w].result = "status"

\* C25: with --unzip no two archives are unpacked into the same directory:
\* each is unpacked into the subdirectory named after its stem.
C25_OwnExtractDir ==
  (prog \in ArtifactProgs /\ unzip) =>
    \A a, b \in 1..Len(extracted) :
      a # b => extracted[a].dir # extracted[b].dir

Position(t) == CHOOSE i \in 1..Len(TaskOrder) : TaskOrder[i] = t

\* C26: the tasks are run in the order create_tasks made them (setup, clean,
\* cmake, build, test), each result is the one of the task at its position,
\* no task is run after one that failed, and the list run_tasks returns is
\* the prefix of the tasks up to and including the first one that failed,
\* or all of them when none failed.
C26_PrefixUpToFirstFailure ==
  prog = "project" =>
    /\ \A a, b \in 1..Len(todo) : a < b => Position(todo[a]) < Position(todo[b])
    /\ Len(results) <= Len(todo)
    /\ \A j \in 1..Len(results) :
         /\ results[j].task = todo[j]
         /\ j < Len(results) => results[j].retcode = 0
    /\ pc = "tasks" => \A j \in 1..Len(results) : results[j].retcode = 0
    /\ pc = "ran" =>
         /\ Len(results) >= 1
         /\ \/ results[Len(results)].retcode # 0
            \/ Len(results) = Len(todo)

C26_Witness ==
  /\ prog = "project"
  /\ pc = "ran"
  /\ todo = TaskOrder
  /\ Len(results) = 3
  /\ results[3] = [task |-> "cmake", retcode |-> 2]

\* C27: a batch of automation/download.py whose queue.join() has returned
\* goes on to return: the final gather completes.
C27_GenericBatchReturns == (entry = "generic" /\ pc = "gather") ~> (pc = "returned")

SameTarget(i) == {j \in ItemIds \ {i} : TargetOf(j) = TargetOf(i)}

\* C29: a download request that is answered with a non-2xx status changes
\* nothing in the destination directory: no directory is made and no file
\* is created or cut; a file that was at the destination of the item before
\* the call still holds what it held when the refused download has ended
\* (as long as no other item is written to the same file).
C29_RefusedLeavesFilesAlone ==
  [][GitHubBatch =>
       /\ \A w \in Workers :
            (tasks[w].pc = "req" /\ tasks'[w].pc = "ret" /\ tasks'[w].result = "status") =>
              fs' = fs
       /\ \A w \in Workers :
            (tasks[w].pc = "ret" /\ tasks[w].result = "status" /\ SameTarget(tasks[w].item) = {}) =>
              /\ fs[TargetOf(tasks[w].item)] = prior[TargetOf(tasks[w].item)]
              /\ tasks'[w] # tasks[w] => fs' = fs]_vars

C29_Witness ==
  /\ GitHubBatch
  /\ calls = 1
  /\ prior = StaleDirectory
  /\ \E w \in Workers :
       /\ tasks[w].pc = "ret"
       /\ tasks[w].result = "status"
       /\ fs[TargetOf(tasks[w].item)] = STALE
  /\ \E f \in AllFiles : fs[f] \notin {STALE, ABSENT}

\* The downloads of item i that have ended and were accounted for.
Processed(i) == hist[i].ok + hist[i].fail
\* The workers that hold item i between its dequeue and its task_done.
Holding(i) == {w \in Workers : tasks[w].item = i /\ tasks[w].pc \in {"req", "write", "ret"}}

\* C30: task_done is called once for every item taken off the queue, whether
\* its download returned or raised, and never for an item that was not
\* taken; the count of unfinished tasks is the number of items put on the
\* queue minus the number fully processed and is never negative; and
\* queue.join() lets the caller go on exactly when the last item has been
\* processed.
C30_JoinAccounting ==
  (GitHubBatch /\ BatchStarted) =>
    /\ \A i \in ItemIds :
         /\ Processed(i) <= hist[i].deq
         /\ Processed(i) + Cardinality(Holding(i)) = hist[i].deq
    /\ unfinished = Len(items) - SumOver([i \in ItemIds |-> Processed(i)], Len(items))
    /\ unfinished >= 0
    /\ pc = "join" => (ENABLED Join <=> \A i \in ItemIds : Processed(i) = 1)
    /\ pc \in {"gather", "returned"} => \A i \in ItemIds : Processed(i) = 1

C30_Witness ==
  /\ GitHubBatch
  /\ pc = "join"
  /\ Len(items) = 3
  /\ unfinished = 1
  /\ hist[1].fail = 1
  /\ hist[2].ok = 1
  /\ \E w \in Workers : tasks[w].item = 3 /\ tasks[w].pc = "write"

====
